---- MODULE Spec2Model ----
(***************************************************************************)
(* GlobalDub (src/dub.py): the command line entry point, the batch runner, *)
(* the per-video pipeline with its finally-clause cleanup, and the         *)
(* duration reconciliation done inside mix_audio.                          *)
(*                                                                         *)
(* Durations are whole ticks (the media libraries report durations parsed  *)
(* from ffmpeg's hundredths of a second); a speed factor is the exact      *)
(* ratio <<numerator, denominator>>.                                       *)
(***************************************************************************)
EXTENDS Integers, Sequences, FiniteSets, TLC

\* ---------------------------------------------------------------- bounds
MaxJobs == 2        \* longest urls list explored
MaxDur == 5         \* longest video / dub duration explored, in ticks
MaxSentences == 3   \* most sentences in a text given to translate_text

\* ------------------------------------------------------------- constants
NONE == "none"

\* MAX_SPEED_FACTOR = 1.25
MAX_SPEED_FACTOR == <<125, 100>>

\* The literal 1.0 that adjust_audio_speed compares its factor with.
ONE == <<1, 1>>

\* The calls process_video makes, in program order; mix_audio is entered at
\* Reconciling (durations, speed decision) and continues at Mixing
\* (composite, render).
Stages ==
    <<"Acquiring", "Transcribing", "Translating", "Synthesizing", "Reconciling", "Mixing">>

\* The files the pipeline creates under TEMP_DIR.
TempFiles ==
    {"source_video.mp4", "source_audio.wav", "dubbed_audio.mp3", "adjusted_dub.mp3"}

\* ------------------------------------------------------------- rationals
RatLe(a, b) == a[1] * b[2] <= b[1] * a[2]
RatEq(a, b) == a[1] * b[2] = b[1] * a[2]
RatLt(a, b) == a[1] * b[2] < b[1] * a[2]

\* ----------------------------------------------------------------- state
VARIABLES
    args,          \* parsed command line: [batch, url, keep_temp, list_langs, check]
    missing,       \* check_dependencies: some required tool is not installed
    urls,          \* batch_process: the urls read from the file, in order
    results,       \* batch_process: the per-job outcome list
    i,             \* batch_process: enumerate index of the current url (0: none yet)
    pc,            \* control position
    keep_temp,     \* process_video: the keep_temp parameter of the current call
    bound,         \* process_video: names bound so far in the current call
    exc,           \* the exception in flight out of the current call, or NONE
    ret,           \* the value process_video returns, or <<>> while it has returned none
    mix,           \* mix_audio: its locals once the speed decision is made, or NONE
    atempo,        \* adjust_audio_speed invocations of the current call: <<factor, how>>
    ran,           \* stages the current call has executed, in order
    failed,        \* <<stage, cause>> of the stage that raised in the current call, or <<>>
    cleaned,       \* cleanup_temp was invoked by the current call
    TEMP_DIR,      \* files present in ./temp
    written,       \* output paths rendered by write_videofile so far
    exit_status,   \* process exit status, or NONE while running
    writer,        \* for each file of ./temp, the job whose call wrote it (0: absent)
    shared,        \* <<stage, file>>: reads by the current call of another job's file
    text,          \* translate_text: its text argument, as a sequence of tokens
    tpc,           \* translate_text: control position ("idle": not being followed)
    chunks,        \* translate_text: the chunks built from the sentences
    translated_chunks, \* translate_text: results collected so far, one per chunk
    requests,      \* the strings handed to translator.translate so far, in order
    translated     \* translate_text: the string it returns

\* The variables of the pipeline and those of translate_text taken alone.
pvars ==
    <<args, missing, urls, results, i, pc, keep_temp, bound, exc, ret, mix, atempo,
      ran, failed, cleaned, TEMP_DIR, written, exit_status, writer, shared>>

tvars == <<text, tpc, chunks, translated_chunks, requests, translated>>

vars == <<pvars, tvars>>

\* ------------------------------------------------------------- helpers
\* url handed to process_video by the current caller (main or batch_process)
CurrentUrl == IF args.batch THEN urls[i] ELSE 0

\* output_path = OUTPUT_DIR / f"dubbed_{video_id}_{target_lang}.mp4"
OutputPath(url) == <<"dubbed", url>>

\* results.append({"url": url, "output": output, "status": "success"})
SuccessResult(url, output) == [url |-> url, output |-> output, status |-> "success"]

\* Faulty variant of FailedResult: the error text is left out of the record.
FailedResultNoCause(url, e) == [url |-> url, error |-> "", status |-> "failed"]

\* results.append({"url": url, "error": str(e), "status": "failed"})
FailedResult(url, e) == [url |-> url, error |-> e, status |-> "failed"]

\* Number of the job the current process_video call belongs to.
Job == IF args.batch THEN i ELSE 1

\* ./temp after the current call has (re)written files.
WrittenBy(w, job, files) == [f \in TempFiles |-> IF f \in files THEN job ELSE w[f]]

\* The reads of files by stage that find another job's content.
ForeignReads(w, job, stage, files) ==
    {<<stage, f>> : f \in {g \in files : w[g] \notin {0, job}}}

\* The frame of a fresh process_video call; ensure_directories leaves the
\* contents of ./temp and ./output as they are.
EnterProcessVideo(keep) ==
    /\ keep_temp' = keep
    /\ bound' = {}
    /\ exc' = NONE
    /\ ret' = <<>>
    /\ mix' = NONE
    /\ atempo' = <<>>
    /\ ran' = <<>>
    /\ failed' = <<>>
    /\ cleaned' = FALSE
    /\ shared' = {}
    /\ pc' = "Acquiring"

\* Faulty variant of Raise: the stage's exception is swallowed and the next
\* statement of the try body runs.
RaiseSwallowed(stage, cause) ==
    /\ exc' = exc
    /\ failed' = <<stage, cause>>
    /\ ran' = Append(ran, stage)
    /\ pc' = IF stage = "Mixing" THEN "finally"
             ELSE Stages[1 + CHOOSE k \in 1..Len(Stages) : Stages[k] = stage]

\* A stage raises: control leaves the try body for the finally clause.
Raise(stage, cause) ==
    /\ exc' = cause
    /\ failed' = <<stage, cause>>
    /\ ran' = Append(ran, stage)
    /\ pc' = "finally"

\* A stage returns normally, binding names, and control moves on.
Proceed(stage, names, next) ==
    /\ bound' = bound \cup names
    /\ ran' = Append(ran, stage)
    /\ pc' = next

\* The names (and the files behind them) each call of the try body is
\* handed: transcribe_audio(audio_path), translate_text(transcript),
\* generate_tts(translated), mix_audio(video_path, tts_path, output_path).
Needs(stage) ==
    CASE stage = "Acquiring" -> [names |-> {}, files |-> {}]
      [] stage = "Transcribing" ->
            [names |-> {"audio_path"}, files |-> {"source_audio.wav"}]
      [] stage = "Translating" -> [names |-> {"transcript"}, files |-> {}]
      [] stage = "Synthesizing" -> [names |-> {"translated"}, files |-> {}]
      [] stage \in {"Reconciling", "Mixing"} ->
            [names |-> {"video_path", "tts_path", "output_path"},
             files |-> {"source_video.mp4", "dubbed_audio.mp3"}]

Init ==
    /\ args \in [batch : BOOLEAN, url : BOOLEAN, keep_temp : BOOLEAN,
                 list_langs : BOOLEAN, check : BOOLEAN]
    /\ missing \in BOOLEAN
    /\ urls \in {[k \in 1..n |-> k] : n \in IF args.batch THEN 0..MaxJobs ELSE {0}}
    /\ results = <<>>
    /\ i = 0
    /\ pc = "main"
    /\ keep_temp = FALSE
    /\ bound = {}
    /\ exc = NONE
    /\ ret = <<>>
    /\ mix = NONE
    /\ atempo = <<>>
    /\ ran = <<>>
    /\ failed = <<>>
    /\ cleaned = FALSE
    /\ TEMP_DIR = {}
    /\ written = {}
    /\ exit_status = NONE
    /\ writer = [f \in TempFiles |-> 0]
    /\ shared = {}
    /\ text = <<>>
    /\ tpc = "idle"
    /\ chunks = <<>>
    /\ translated_chunks = <<>>
    /\ requests = <<>>
    /\ translated = <<>>

\* ------------------------------------------------------------------ main
\* main(): --list-langs prints the voices and returns before anything is
\* checked; check_dependencies calls sys.exit(1) when a tool is missing;
\* --check returns after it; otherwise the batch runner, the single-video
\* pipeline, or the help text.
Main ==
    /\ pc = "main"
    /\ IF args.list_langs
       THEN /\ pc' = "exit"
            /\ exit_status' = 0
            /\ UNCHANGED <<i, keep_temp, bound, exc, ret, mix, atempo, ran, failed, cleaned,
                           shared>>
       ELSE IF missing
       THEN /\ pc' = "exit"
            /\ exit_status' = 1
            /\ UNCHANGED <<i, keep_temp, bound, exc, ret, mix, atempo, ran, failed, cleaned,
                           shared>>
       ELSE IF args.check
       THEN /\ pc' = "exit"
            /\ exit_status' = 0
            /\ UNCHANGED <<i, keep_temp, bound, exc, ret, mix, atempo, ran, failed, cleaned,
                           shared>>
       ELSE IF args.batch
       THEN /\ pc' = "batch_loop"
            /\ UNCHANGED <<i, keep_temp, bound, exc, ret, mix, atempo, ran, failed, cleaned,
                           shared, exit_status>>
       ELSE IF args.url
       THEN /\ EnterProcessVideo(args.keep_temp)
            /\ UNCHANGED <<i, exit_status>>
       ELSE /\ pc' = "exit"
            /\ exit_status' = 0
            /\ UNCHANGED <<i, keep_temp, bound, exc, ret, mix, atempo, ran, failed, cleaned,
                           shared>>
    /\ UNCHANGED <<args, missing, urls, results, TEMP_DIR, written, writer>>
    /\ UNCHANGED tvars

\* batch_process: the for loop takes the next url and calls process_video
\* with the default keep_temp, or, the list exhausted, returns results and
\* main returns.
BatchLoop ==
    /\ pc = "batch_loop"
    /\ IF i < Len(urls)
       THEN /\ i' = i + 1
            /\ EnterProcessVideo(FALSE)
            /\ UNCHANGED exit_status
       ELSE /\ pc' = "exit"
            /\ exit_status' = 0
            /\ UNCHANGED <<i, keep_temp, bound, exc, ret, mix, atempo, ran, failed, cleaned,
                           shared>>
    /\ UNCHANGED <<args, missing, urls, results, TEMP_DIR, written, writer>>
    /\ UNCHANGED tvars

\* --------------------------------------------------------------- stages
\* download_video: yt-dlp writes source_video.mp4, then ffmpeg extracts
\* source_audio.wav from it (-y: always rewritten); either subprocess may
\* exit non-zero.  yt-dlp is run without --force-overwrites, so when
\* source_video.mp4 is still there it may report success and leave the
\* file as it is.
download_video ==
    /\ pc = "Acquiring"
    /\ \E outcome \in {"ok", "yt-dlp", "ffmpeg"}, overwrites \in BOOLEAN :
         LET w == IF overwrites \/ writer["source_video.mp4"] = 0
                  THEN WrittenBy(writer, Job, {"source_video.mp4"})
                  ELSE writer
             read == ForeignReads(w, Job, "Acquiring", {"source_video.mp4"})
         IN  CASE outcome = "yt-dlp" ->
                    /\ Raise("Acquiring", "CalledProcessError")
                    /\ UNCHANGED <<TEMP_DIR, bound, writer, shared>>
               [] outcome = "ffmpeg" ->
                    /\ Raise("Acquiring", "CalledProcessError")
                    /\ TEMP_DIR' = TEMP_DIR \cup {"source_video.mp4"}
                    /\ writer' = w
                    /\ shared' = shared \cup read
                    /\ UNCHANGED bound
               [] outcome = "ok" ->
                    /\ Proceed("Acquiring", {"video_path", "audio_path"}, "Transcribing")
                    /\ TEMP_DIR' = TEMP_DIR \cup {"source_video.mp4", "source_audio.wav"}
                    /\ writer' = WrittenBy(w, Job, {"source_audio.wav"})
                    /\ shared' = shared \cup read
                    /\ UNCHANGED <<exc, failed>>
    /\ UNCHANGED <<args, missing, urls, results, i, keep_temp, ret, mix, atempo, cleaned,
                   written, exit_status>>
    /\ UNCHANGED tvars

\* transcribe_audio: whisper loads the model and transcribes, or raises.
transcribe_audio ==
    /\ pc = "Transcribing"
    /\ \E ok \in BOOLEAN :
         IF ok
         THEN /\ Proceed("Transcribing", {"transcript"}, "Translating")
              /\ UNCHANGED <<exc, failed>>
         ELSE /\ Raise("Transcribing", "whisper")
              /\ UNCHANGED bound
    /\ shared' = shared \cup ForeignReads(writer, Job, "Transcribing", {"source_audio.wav"})
    /\ UNCHANGED <<args, missing, urls, results, i, keep_temp, ret, mix, atempo, cleaned,
                   TEMP_DIR, written, exit_status, writer>>
    /\ UNCHANGED tvars

\* translate_text: a text within max_chunk_size is one translator call whose
\* exception propagates; a longer text is chunked and a failing chunk is
\* kept untranslated.
translate_text ==
    /\ pc = "Translating"
    /\ \E long \in BOOLEAN, translatorFails \in BOOLEAN :
         IF translatorFails /\ ~long
         THEN /\ Raise("Translating", "translator")
              /\ UNCHANGED bound
         ELSE /\ Proceed("Translating", {"translated"}, "Synthesizing")
              /\ UNCHANGED <<exc, failed>>
    /\ UNCHANGED <<args, missing, urls, results, i, keep_temp, ret, mix, atempo, cleaned,
                   TEMP_DIR, written, exit_status, writer, shared>>
    /\ UNCHANGED tvars

\* generate_tts: tts_path is bound, then edge-tts saves dubbed_audio.mp3 and
\* the file is re-read for its duration.
generate_tts ==
    /\ pc = "Synthesizing"
    /\ \E outcome \in {"ok", "save", "from_mp3"} :
         LET w == WrittenBy(writer, Job, {"dubbed_audio.mp3"})
             read == ForeignReads(w, Job, "Synthesizing", {"dubbed_audio.mp3"})
         IN  CASE outcome = "save" ->
                    /\ Raise("Synthesizing", "edge_tts")
                    /\ bound' = bound \cup {"tts_path"}
                    /\ UNCHANGED <<TEMP_DIR, writer, shared>>
               [] outcome = "from_mp3" ->
                    /\ Raise("Synthesizing", "pydub")
                    /\ bound' = bound \cup {"tts_path"}
                    /\ TEMP_DIR' = TEMP_DIR \cup {"dubbed_audio.mp3"}
                    /\ writer' = w
                    /\ shared' = shared \cup read
               [] outcome = "ok" ->
                    /\ Proceed("Synthesizing", {"tts_path", "output_path"}, "Reconciling")
                    /\ TEMP_DIR' = TEMP_DIR \cup {"dubbed_audio.mp3"}
                    /\ writer' = w
                    /\ shared' = shared \cup read
                    /\ UNCHANGED <<exc, failed>>
    /\ UNCHANGED <<args, missing, urls, results, i, keep_temp, ret, mix, atempo, cleaned,
                   written, exit_status>>
    /\ UNCHANGED tvars

\* Faulty variant of SpeedDecision: the MAX_SPEED_FACTOR test is missing,
\* so every longer dub is sped up.
SpeedDecisionNoLimit(video_duration, dubbed_duration) ==
    IF dubbed_duration > video_duration
    THEN IF video_duration = 0
         THEN [raised |-> "ZeroDivisionError", action |-> NONE, speed_needed |-> NONE]
         ELSE [raised |-> NONE, action |-> "scaled",
               speed_needed |-> <<dubbed_duration, video_duration>>]
    ELSE [raised |-> NONE, action |-> "pass-through", speed_needed |-> NONE]

\* Faulty variant of SpeedDecision: speed_needed < MAX_SPEED_FACTOR in
\* place of <=.
SpeedDecisionStrict(video_duration, dubbed_duration) ==
    IF dubbed_duration > video_duration
    THEN IF video_duration = 0
         THEN [raised |-> "ZeroDivisionError", action |-> NONE, speed_needed |-> NONE]
         ELSE LET speed_needed == <<dubbed_duration, video_duration>>
              IN  IF RatLt(speed_needed, MAX_SPEED_FACTOR)
                  THEN [raised |-> NONE, action |-> "scaled", speed_needed |-> speed_needed]
                  ELSE [raised |-> NONE, action |-> "truncated",
                        speed_needed |-> speed_needed]
    ELSE [raised |-> NONE, action |-> "pass-through", speed_needed |-> NONE]

\* Faulty variant of SpeedDecision: dubbed_duration >= video_duration in
\* place of >, so a dub that fits exactly is sent through the speed change.
SpeedDecisionNotShorter(video_duration, dubbed_duration) ==
    IF dubbed_duration >= video_duration
    THEN IF video_duration = 0
         THEN [raised |-> "ZeroDivisionError", action |-> NONE, speed_needed |-> NONE]
         ELSE LET speed_needed == <<dubbed_duration, video_duration>>
              IN  IF RatLe(speed_needed, MAX_SPEED_FACTOR)
                  THEN [raised |-> NONE, action |-> "scaled", speed_needed |-> speed_needed]
                  ELSE [raised |-> NONE, action |-> "truncated",
                        speed_needed |-> speed_needed]
    ELSE [raised |-> NONE, action |-> "pass-through", speed_needed |-> NONE]

\* The speed decision of mix_audio on the two durations it reads: the dub
\* is left alone when it is not longer than the video; otherwise
\* speed_needed = dubbed_duration / video_duration (a division by zero
\* raises) picks the atempo speed-up when within MAX_SPEED_FACTOR and the
\* subclip otherwise.
SpeedDecision(video_duration, dubbed_duration) ==
    IF dubbed_duration > video_duration
    THEN IF video_duration = 0
         THEN [raised |-> "ZeroDivisionError", action |-> NONE, speed_needed |-> NONE]
         ELSE LET speed_needed == <<dubbed_duration, video_duration>>
              IN  IF RatLe(speed_needed, MAX_SPEED_FACTOR)
                  THEN [raised |-> NONE, action |-> "scaled", speed_needed |-> speed_needed]
                  ELSE [raised |-> NONE, action |-> "truncated",
                        speed_needed |-> speed_needed]
    ELSE [raised |-> NONE, action |-> "pass-through", speed_needed |-> NONE]

\* Faulty variant of adjust_audio_speed: a failing ffmpeg is caught and the
\* input is copied to the output instead.
adjust_audio_speed_fallback(speed_factor, ffmpegOk) ==
    IF RatEq(speed_factor, ONE) \/ ~ffmpegOk
    THEN [raised |-> NONE, how |-> "copy"]
    ELSE [raised |-> NONE, how |-> "atempo"]

\* adjust_audio_speed: factor 1.0 copies the file; any other factor runs
\* ffmpeg's atempo filter with check=True, so a failing ffmpeg raises.
adjust_audio_speed(speed_factor, ffmpegOk) ==
    IF RatEq(speed_factor, ONE)
    THEN [raised |-> NONE, how |-> "copy"]
    ELSE IF ffmpegOk
         THEN [raised |-> NONE, how |-> "atempo"]
         ELSE [raised |-> "CalledProcessError", how |-> NONE]

\* Duration of the file adjust_audio_speed leaves behind: atempo=f divides
\* the duration by f, the copy keeps it.
AdjustedDuration(duration, speed_factor, how) ==
    IF how = "atempo" THEN (duration * speed_factor[2]) \div speed_factor[1] ELSE duration

\* What one adjust_audio_speed invocation was asked and what ffmpeg did.
AtempoCall(speed_factor, ffmpegOk) ==
    [speed_factor |-> speed_factor,
     ffmpeg |-> IF RatEq(speed_factor, ONE) THEN "unused"
                ELSE IF ffmpegOk THEN "ok" ELSE "failed"]

\* mix_audio up to the speed decision: load both clips, read their
\* durations, and replace dubbed_audio by the sped-up file or by the
\* subclip when the dub is longer than the video.
Reconcile ==
    /\ pc = "Reconciling"
    /\ \E video_duration \in 0..MaxDur, dubbed_duration \in 0..MaxDur,
          loadOk \in BOOLEAN, ffmpegOk \in BOOLEAN :
         LET d == SpeedDecision(video_duration, dubbed_duration)
             locals(clip) == [video_duration |-> video_duration,
                              dubbed_duration |-> dubbed_duration,
                              action |-> d.action,
                              speed_needed |-> d.speed_needed,
                              dubbed_audio |-> clip]
         IN  /\ IF ~loadOk
                THEN /\ Raise("Reconciling", "moviepy")
                     /\ UNCHANGED <<bound, mix, atempo, TEMP_DIR>>
                ELSE IF d.raised # NONE
                THEN /\ Raise("Reconciling", d.raised)
                     /\ UNCHANGED <<bound, mix, atempo, TEMP_DIR>>
                ELSE IF d.action = "scaled"
                THEN LET a == adjust_audio_speed(d.speed_needed, ffmpegOk)
                     IN  /\ atempo' = Append(atempo, AtempoCall(d.speed_needed, ffmpegOk))
                         /\ IF a.raised # NONE
                            THEN /\ Raise("Reconciling", a.raised)
                                 /\ UNCHANGED <<bound, mix, TEMP_DIR>>
                            ELSE /\ Proceed("Reconciling", {}, "Mixing")
                                 /\ TEMP_DIR' = TEMP_DIR \cup {"adjusted_dub.mp3"}
                                 /\ mix' = locals([path |-> "adjusted_dub.mp3",
                                                   duration |-> AdjustedDuration(
                                                       dubbed_duration, d.speed_needed, a.how),
                                                   subclip |-> FALSE])
                                 /\ UNCHANGED <<exc, failed>>
                ELSE IF d.action = "truncated"
                THEN /\ Proceed("Reconciling", {}, "Mixing")
                     /\ mix' = locals([path |-> "dubbed_audio.mp3",
                                       duration |-> video_duration,
                                       subclip |-> TRUE])
                     /\ UNCHANGED <<exc, failed, atempo, TEMP_DIR>>
                ELSE /\ Proceed("Reconciling", {}, "Mixing")
                     /\ mix' = locals([path |-> "dubbed_audio.mp3",
                                       duration |-> dubbed_duration,
                                       subclip |-> FALSE])
                     /\ UNCHANGED <<exc, failed, atempo, TEMP_DIR>>
             /\ writer' = IF /\ loadOk
                             /\ d.action = "scaled"
                             /\ adjust_audio_speed(d.speed_needed, ffmpegOk).raised = NONE
                          THEN WrittenBy(writer, Job, {"adjusted_dub.mp3"})
                          ELSE writer
             /\ shared' = IF loadOk
                          THEN shared \cup ForeignReads(
                                   writer', Job, "Reconciling",
                                   {"source_video.mp4", "dubbed_audio.mp3"}
                                       \cup {f \in {"adjusted_dub.mp3"} : writer'[f] # writer[f]})
                          ELSE shared
    /\ UNCHANGED <<args, missing, urls, results, i, keep_temp, ret, cleaned, written,
                   exit_status>>
    /\ UNCHANGED tvars

\* mix_audio from the composite on: dubbed_audio goes into the final audio
\* as the decision left it, write_videofile renders output_path, and
\* process_video returns output_path.
Mix ==
    /\ pc = "Mixing"
    /\ \E renderOk \in BOOLEAN :
         IF renderOk
         THEN /\ written' = written \cup {OutputPath(CurrentUrl)}
              /\ ret' = OutputPath(CurrentUrl)
              /\ ran' = Append(ran, "Mixing")
              /\ pc' = "finally"
              /\ UNCHANGED <<exc, failed>>
         ELSE /\ Raise("Mixing", "moviepy")
              /\ UNCHANGED <<written, ret>>
    /\ mix' = NONE
    /\ shared' = shared \cup ForeignReads(writer, Job, "Mixing",
                                         {"source_video.mp4", mix.dubbed_audio.path})
    /\ UNCHANGED <<args, missing, urls, results, i, keep_temp, bound, atempo, cleaned,
                   TEMP_DIR, exit_status, writer>>
    /\ UNCHANGED tvars

\* -------------------------------------------------------------- cleanup
\* cleanup_temp: listing ./temp is outside the try, so its error leaves the
\* function; each unlink is inside it, so a file that cannot be deleted
\* (those in stuck) just stays.
cleanup_temp(listFails, stuck) ==
    IF listFails
    THEN [raised |-> "OSError", TEMP_DIR |-> TEMP_DIR]
    ELSE [raised |-> NONE, TEMP_DIR |-> TEMP_DIR \cap stuck]

\* Faulty variant of Finally: cleanup placed at the end of the try body, so
\* it runs on the success path only.
FinallyOnSuccessOnly ==
    /\ pc = "finally"
    /\ IF keep_temp \/ exc # NONE
       THEN UNCHANGED <<exc, ret, cleaned, TEMP_DIR>>
       ELSE \E listFails \in BOOLEAN, stuck \in SUBSET TEMP_DIR :
              LET c == cleanup_temp(listFails, stuck)
              IN  /\ cleaned' = TRUE
                  /\ TEMP_DIR' = c.TEMP_DIR
                  /\ exc' = IF c.raised # NONE THEN c.raised ELSE exc
                  /\ ret' = IF c.raised # NONE THEN <<>> ELSE ret
    /\ pc' = "returned"
    /\ writer' = [f \in TempFiles |-> IF f \in TEMP_DIR' THEN writer[f] ELSE 0]
    /\ UNCHANGED <<args, missing, urls, results, i, keep_temp, bound, mix, atempo, ran,
                   failed, written, exit_status, shared>>
    /\ UNCHANGED tvars

\* The finally clause of process_video: cleanup unless keep_temp; an
\* exception raised here replaces the pending return value or exception.
Finally ==
    /\ pc = "finally"
    /\ IF keep_temp
       THEN UNCHANGED <<exc, ret, cleaned, TEMP_DIR>>
       ELSE \E listFails \in BOOLEAN, stuck \in SUBSET TEMP_DIR :
              LET c == cleanup_temp(listFails, stuck)
              IN  /\ cleaned' = TRUE
                  /\ TEMP_DIR' = c.TEMP_DIR
                  /\ exc' = IF c.raised # NONE THEN c.raised ELSE exc
                  /\ ret' = IF c.raised # NONE THEN <<>> ELSE ret
    /\ pc' = "returned"
    /\ writer' = [f \in TempFiles |-> IF f \in TEMP_DIR' THEN writer[f] ELSE 0]
    /\ UNCHANGED <<args, missing, urls, results, i, keep_temp, bound, mix, atempo, ran,
                   failed, written, exit_status, shared>>
    /\ UNCHANGED tvars

\* -------------------------------------------------------------- callers
\* Faulty variant of BatchReturn: the except clause records the failure and
\* then leaves the loop, as a bare re-raise or break would.
BatchReturnAbort ==
    /\ pc = "returned"
    /\ args.batch
    /\ results' = Append(results, IF exc = NONE
                                  THEN SuccessResult(urls[i], ret)
                                  ELSE FailedResult(urls[i], exc))
    /\ pc' = IF exc = NONE THEN "batch_loop" ELSE "exit"
    /\ exit_status' = IF exc = NONE THEN exit_status ELSE 1
    /\ UNCHANGED <<args, missing, urls, i, keep_temp, bound, exc, ret, mix, atempo, ran,
                   failed, cleaned, TEMP_DIR, written, writer, shared>>
    /\ UNCHANGED tvars

\* batch_process: the try/except around process_video appends the job's
\* outcome and the loop goes on.
BatchReturn ==
    /\ pc = "returned"
    /\ args.batch
    /\ results' = Append(results, IF exc = NONE
                                  THEN SuccessResult(urls[i], ret)
                                  ELSE FailedResult(urls[i], exc))
    /\ pc' = "batch_loop"
    /\ UNCHANGED <<args, missing, urls, i, keep_temp, bound, exc, ret, mix, atempo, ran,
                   failed, cleaned, TEMP_DIR, written, exit_status, writer, shared>>
    /\ UNCHANGED tvars

\* main: asyncio.run(process_video(...)) returns and main ends, or the
\* exception is uncaught and the interpreter exits with status 1.
MainReturn ==
    /\ pc = "returned"
    /\ ~args.batch
    /\ pc' = "exit"
    /\ exit_status' = IF exc = NONE THEN 0 ELSE 1
    /\ UNCHANGED <<args, missing, urls, results, i, keep_temp, bound, exc, ret, mix, atempo,
                   ran, failed, cleaned, TEMP_DIR, written, writer, shared>>
    /\ UNCHANGED tvars

Next ==
    \/ Main
    \/ BatchLoop
    \/ download_video
    \/ transcribe_audio
    \/ translate_text
    \/ generate_tts
    \/ Reconcile
    \/ Mix
    \/ Finally
    \/ BatchReturn
    \/ MainReturn

Spec == Init /\ [][Next]_vars

\* ======================================================== translate_text
\* A string is a sequence of tokens: a sentence (its position in the text
\* as id, and its length in characters; it holds no whitespace that
\* follows a '.', '!' or '?') or a run of whitespace (id 0).  The text of a
\* translation has its sentence ids negated.
Sentence(id, len) == [id |-> id, len |-> len]
Space(len) == [id |-> 0, len |-> len]

\* max_chunk_size = 4500
max_chunk_size == 4500

\* Sentence lengths and whitespace-run lengths the texts are built from.
SentenceLens == {1, 2250, 4499, 4501}
SepLens == {1, 2}

\* Texts of n sentences: whitespace runs between them, and possibly after
\* the last one.
TextsOf(n) ==
    {[k \in 1..(2 * n - 1 + (IF trail > 0 THEN 1 ELSE 0)) |->
         IF k % 2 = 1
         THEN Sentence((k + 1) \div 2, lens[(k + 1) \div 2])
         ELSE Space(IF k = 2 * n THEN trail ELSE seps[k \div 2])] :
       lens \in [1..n -> SentenceLens],
       seps \in [1..(n - 1) -> SepLens],
       trail \in {0} \cup SepLens}

Texts == UNION {TextsOf(n) : n \in 1..MaxSentences}

\* len(str)
RECURSIVE StrLen(_)
StrLen(str) == IF str = <<>> THEN 0 ELSE Head(str).len + StrLen(Tail(str))

\* str.strip()
RECURSIVE LStrip(_)
LStrip(str) == IF str # <<>> /\ Head(str).id = 0 THEN LStrip(Tail(str)) ELSE str

RECURSIVE RStrip(_)
RStrip(str) ==
    IF str # <<>> /\ str[Len(str)].id = 0 THEN RStrip(SubSeq(str, 1, Len(str) - 1)) ELSE str

Strip(str) == RStrip(LStrip(str))

\* re.split(r'(?<=[.!?])\s+', text): the whitespace runs are dropped, and a
\* run that ends the text leaves an empty last string.
RECURSIVE Split(_)
Split(str) ==
    IF str = <<>> THEN << <<>> >>
    ELSE IF Len(str) = 1 THEN <<str>>
    ELSE << <<str[1]>> >> \o Split(SubSeq(str, 3, Len(str)))

\* The for loop over the sentences from the k-th on, and the flush after
\* it: a sentence joins current_chunk behind a space while the two lengths
\* add up to less than max_chunk_size; otherwise a non-empty current_chunk
\* is closed (stripped) and the sentence starts the next one.
RECURSIVE ChunkLoop(_, _, _, _)
ChunkLoop(sentences, k, chunkList, current_chunk) ==
    IF k > Len(sentences)
    THEN IF current_chunk # <<>> THEN Append(chunkList, Strip(current_chunk)) ELSE chunkList
    ELSE IF StrLen(current_chunk) + StrLen(sentences[k]) < max_chunk_size
         THEN ChunkLoop(sentences, k + 1, chunkList,
                        current_chunk \o <<Space(1)>> \o sentences[k])
         ELSE ChunkLoop(sentences, k + 1,
                        IF current_chunk # <<>>
                        THEN Append(chunkList, Strip(current_chunk))
                        ELSE chunkList,
                        sentences[k])

\* " ".join(strs)
RECURSIVE Join(_)
Join(strs) ==
    IF strs = <<>> THEN <<>>
    ELSE IF Len(strs) = 1 THEN strs[1]
    ELSE strs[1] \o <<Space(1)>> \o Join(Tail(strs))

\* What translator.translate can do with a string: return it as it is,
\* return its translation, or raise.
Outcomes == {"same", "other", "raises"}

Translate(str, outcome) ==
    IF outcome = "same" THEN str
    ELSE [k \in DOMAIN str |->
            IF str[k].id = 0 THEN str[k] ELSE Sentence(0 - str[k].id, str[k].len)]

\* translate_text on its own, for every text of Texts; the pipeline stands
\* still at its start.
TranslateInit ==
    /\ args = [batch |-> FALSE, url |-> TRUE, keep_temp |-> FALSE,
               list_langs |-> FALSE, check |-> FALSE]
    /\ missing = FALSE
    /\ urls = <<>>
    /\ results = <<>>
    /\ i = 0
    /\ pc = "main"
    /\ keep_temp = FALSE
    /\ bound = {}
    /\ exc = NONE
    /\ ret = <<>>
    /\ mix = NONE
    /\ atempo = <<>>
    /\ ran = <<>>
    /\ failed = <<>>
    /\ cleaned = FALSE
    /\ TEMP_DIR = {}
    /\ written = {}
    /\ exit_status = NONE
    /\ writer = [f \in TempFiles |-> 0]
    /\ shared = {}
    /\ text \in Texts
    /\ tpc = "start"
    /\ chunks = <<>>
    /\ translated_chunks = <<>>
    /\ requests = <<>>
    /\ translated = <<>>

\* len(text) <= max_chunk_size takes the single-request branch; otherwise
\* the text is split into sentences and the chunks are built.
TStart ==
    /\ tpc = "start"
    /\ IF StrLen(text) <= max_chunk_size
       THEN /\ tpc' = "single"
            /\ UNCHANGED chunks
       ELSE /\ tpc' = "chunks"
            /\ chunks' = ChunkLoop(Split(text), 1, <<>>, <<>>)
    /\ UNCHANGED <<text, translated_chunks, requests, translated>>
    /\ UNCHANGED pvars

\* translated = translator.translate(text): an exception leaves
\* translate_text.
TSingle ==
    /\ tpc = "single"
    /\ \E outcome \in Outcomes :
         /\ requests' = Append(requests, text)
         /\ IF outcome = "raises"
            THEN /\ tpc' = "raised"
                 /\ UNCHANGED translated
            ELSE /\ tpc' = "done"
                 /\ translated' = Translate(text, outcome)
    /\ UNCHANGED <<text, chunks, translated_chunks>>
    /\ UNCHANGED pvars

\* One iteration of the loop over the chunks: the chunk is translated, or
\* kept as it is when the translator raises.
TChunk ==
    /\ tpc = "chunks"
    /\ Len(translated_chunks) < Len(chunks)
    /\ LET chunk == chunks[Len(translated_chunks) + 1]
       IN  \E outcome \in Outcomes :
             /\ requests' = Append(requests, chunk)
             /\ translated_chunks' =
                    Append(translated_chunks,
                           IF outcome = "raises" THEN chunk ELSE Translate(chunk, outcome))
    /\ UNCHANGED <<text, tpc, chunks, translated>>
    /\ UNCHANGED pvars

\* translated = " ".join(translated_chunks), returned.
TJoin ==
    /\ tpc = "chunks"
    /\ Len(translated_chunks) = Len(chunks)
    /\ translated' = Join(translated_chunks)
    /\ tpc' = "done"
    /\ UNCHANGED <<text, chunks, translated_chunks, requests>>
    /\ UNCHANGED pvars

TranslateNext ==
    \/ TStart
    \/ TSingle
    \/ TChunk
    \/ TJoin

TranslateSpec == TranslateInit /\ [][TranslateNext]_vars

\* ================================================================ claims
InCall == pc \in {"Acquiring", "Transcribing", "Translating", "Synthesizing",
                  "Reconciling", "Mixing", "finally", "returned"}

\* main got as far as calling batch_process.
BatchRan == args.batch /\ ~args.list_langs /\ ~args.check /\ ~missing

\* C1: batch_process returns exactly one outcome per url, in input order:
\* the k-th outcome is that of the k-th url and is success or failed, the
\* outcomes recorded so far are those of the urls already processed, and
\* when the batch ends every url has its outcome, whichever jobs failed.
C1_OneOutcomePerJobInOrder ==
    args.batch =>
        /\ \A k \in 1..Len(results) :
             /\ k <= Len(urls)
             /\ results[k].url = urls[k]
             /\ results[k].status \in {"success", "failed"}
        /\ InCall => i \in 1..Len(urls) /\ Len(results) = i - 1
        /\ pc = "batch_loop" => Len(results) = i
        /\ (pc = "exit" /\ BatchRan) => Len(results) = Len(urls)

\* C1 witness: the batch has ended, its first job failed and a later job
\* succeeded.
C1_Witness ==
    /\ args.batch
    /\ pc = "exit"
    /\ Len(results) = 2
    /\ results[1].status = "failed"
    /\ results[2].status = "success"

\* C2: without keep_temp, cleanup_temp has been invoked whenever
\* process_video hands control back, on the success path and after a
\* failure of any stage; with keep_temp no step removes a file from ./temp.
C2_CleanupOnEveryExitPath ==
    /\ []((pc = "returned" /\ ~keep_temp) => cleaned)
    /\ [][keep_temp' => TEMP_DIR \subseteq TEMP_DIR']_vars

\* C2 witness: a call without keep_temp failed in a stage, and cleanup ran
\* and deleted the files it had created.
C2_Witness ==
    /\ pc = "returned"
    /\ ~keep_temp
    /\ failed # <<>>
    /\ failed[1] = "Synthesizing"
    /\ cleaned
    /\ TEMP_DIR = {}

\* C3: cleanup never changes the outcome process_video had determined: a
\* call whose stages all succeeded returns its output path, and a call
\* that failed in a stage raises that stage's error, whatever goes wrong
\* inside cleanup_temp.
C3_CleanupKeepsOutcome ==
    pc = "returned" =>
        IF failed = <<>>
        THEN exc = NONE /\ ret = OutputPath(CurrentUrl)
        ELSE exc = failed[2]

ScalerFailed == \E k \in 1..Len(atempo) : atempo[k].ffmpeg = "failed"

\* C4: once ffmpeg has failed inside adjust_audio_speed, the call never
\* reaches the composite/render part of mix_audio: the error is the one in
\* flight, nothing is returned, no output file of this job is written, and
\* the job is recorded as failed (batch) or the process exits 1 (single).
C4_ScalerFailurePropagates ==
    ScalerFailed =>
        /\ pc # "Mixing"
        /\ failed = <<"Reconciling", "CalledProcessError">>
        /\ ret = <<>>
        /\ pc \in {"finally", "returned"} => exc # NONE
        /\ OutputPath(CurrentUrl) \notin written
        /\ (args.batch /\ pc \in {"batch_loop", "exit"}) => results[i].status = "failed"
        /\ (~args.batch /\ pc = "exit") => exit_status = 1

\* C4 witness: the atempo run failed and the batch recorded the job as
\* failed.
C4_Witness ==
    /\ ScalerFailed
    /\ args.batch
    /\ pc = "batch_loop"
    /\ results[i].status = "failed"

\* The outcome of the job process_video was last called for is recorded.
JobRecorded == args.batch /\ pc \in {"batch_loop", "exit"} /\ i >= 1 /\ Len(results) = i

StagePos(stage) == CHOOSE k \in 1..Len(Stages) : Stages[k] = stage

\* C6: the stages of one call run in the order of Stages: what has run is
\* a prefix of Stages; a stage is about to run only when all earlier ones
\* have run without error and the names and files it is handed exist; a
\* value is returned only after all six have run without error; and once
\* a stage has raised, it is the last one that ran and no stage is pending.
C6_StagesStrictlySequential ==
    /\ Len(ran) <= Len(Stages)
    /\ \A k \in 1..Len(ran) : ran[k] = Stages[k]
    /\ pc \in {Stages[k] : k \in 1..Len(Stages)} =>
          /\ Len(ran) = StagePos(pc) - 1
          /\ failed = <<>>
          /\ exc = NONE
          /\ Needs(pc).names \subseteq bound
          /\ Needs(pc).files \subseteq TEMP_DIR
    /\ ret # <<>> => ran = Stages /\ failed = <<>>
    /\ failed # <<>> =>
          /\ ran # <<>>
          /\ ran[Len(ran)] = failed[1]
          /\ pc \in {"finally", "returned", "batch_loop", "exit"}
          /\ OutputPath(CurrentUrl) \in written => failed[1] = "Mixing"

\* C6 witness: a call ran all six stages and returned its output.
C6_Witness ==
    /\ pc = "returned"
    /\ ran = Stages
    /\ ret # <<>>
    /\ exc = NONE

\* dub_duration > video_duration * max_scale, on the durations mix_audio read
TooLong(vd, dd) == dd * MAX_SPEED_FACTOR[2] > vd * MAX_SPEED_FACTOR[1]

\* C7: for video_duration > 0 and dub_duration > video_duration * 1.25 the
\* decision raises nothing and is truncated; adjust_audio_speed has not
\* been invoked, and the dub clip handed to the composite is the subclip
\* of the synthesized dub, of length exactly video_duration.
C7_TooLongIsTruncated ==
    /\ \A vd \in 1..MaxDur, dd \in 0..MaxDur :
         TooLong(vd, dd) => SpeedDecision(vd, dd).raised = NONE
    /\ (pc = "Mixing" /\ mix.video_duration > 0
            /\ TooLong(mix.video_duration, mix.dubbed_duration)) =>
          /\ mix.action = "truncated"
          /\ atempo = <<>>
          /\ mix.dubbed_audio = [path |-> "dubbed_audio.mp3",
                                 duration |-> mix.video_duration,
                                 subclip |-> TRUE]

\* C7 witness: a 3-tick video with a 5-tick dub is about to be mixed.
C7_Witness ==
    /\ pc = "Mixing"
    /\ mix.video_duration = 3
    /\ mix.dubbed_duration = 5
    /\ mix.action = "truncated"

\* C8: for video_duration < dub_duration <= video_duration * 1.25 the
\* decision raises nothing and is scaled with factor dub_duration /
\* video_duration, which is what adjust_audio_speed is invoked with; and
\* every factor adjust_audio_speed is ever invoked with is greater than 1
\* and at most MAX_SPEED_FACTOR.
C8_ScaledFactorWithinLimit ==
    /\ \A vd \in 0..MaxDur, dd \in 0..MaxDur :
         (vd < dd /\ ~TooLong(vd, dd)) => SpeedDecision(vd, dd).raised = NONE
    /\ (pc = "Mixing" /\ mix.video_duration < mix.dubbed_duration
            /\ ~TooLong(mix.video_duration, mix.dubbed_duration)) =>
          /\ mix.action = "scaled"
          /\ mix.speed_needed = <<mix.dubbed_duration, mix.video_duration>>
          /\ Len(atempo) = 1
          /\ atempo[1].speed_factor = mix.speed_needed
    /\ \A k \in 1..Len(atempo) :
          /\ RatLt(ONE, atempo[k].speed_factor)
          /\ RatLe(atempo[k].speed_factor, MAX_SPEED_FACTOR)

\* C8 witness: a 4-tick video with a 5-tick dub (factor exactly 1.25) was
\* sped up and is about to be mixed.
C8_Witness ==
    /\ pc = "Mixing"
    /\ mix.video_duration = 4
    /\ mix.dubbed_duration = 5
    /\ mix.action = "scaled"
    /\ atempo = <<[speed_factor |-> <<5, 4>>, ffmpeg |-> "ok"]>>
    /\ mix.dubbed_audio.duration = 4

\* C9: for video_duration > 0 and 0 <= dub_duration <= video_duration the
\* decision raises nothing and is pass-through: the dub clip handed to the
\* composite is the synthesized file at its own duration (tempo factor
\* 1.0), and adjust_audio_speed has not been invoked.
C9_FittingDubPassesThrough ==
    /\ \A vd \in 1..MaxDur, dd \in 0..MaxDur :
         dd <= vd => SpeedDecision(vd, dd).raised = NONE
    /\ (pc = "Mixing" /\ mix.video_duration > 0
            /\ mix.dubbed_duration <= mix.video_duration) =>
          /\ mix.action = "pass-through"
          /\ mix.speed_needed = NONE
          /\ atempo = <<>>
          /\ mix.dubbed_audio = [path |-> "dubbed_audio.mp3",
                                 duration |-> mix.dubbed_duration,
                                 subclip |-> FALSE]

\* C9 witness: a silent (0-tick) dub over a 3-tick video is about to be
\* mixed unmodified.
C9_Witness ==
    /\ pc = "Mixing"
    /\ mix.video_duration = 3
    /\ mix.dubbed_duration = 0
    /\ mix.action = "pass-through"

\* C10: with video_duration == 0 no plan is ever produced, so mix_audio
\* never gets as far as the composite and render with such a video.
C10_ZeroVideoDurationIsError ==
    pc = "Mixing" => mix.video_duration # 0

\* C11: no stage of a job reads a file of ./temp that another job of the
\* batch wrote.
C11_NoTempFileSharedAcrossJobs ==
    shared = {}

\* The run ended Failed: some job of the batch is recorded as failed, or
\* the single process_video call raised.
RunFailed ==
    IF args.batch
    THEN \E k \in 1..Len(results) : results[k].status = "failed"
    ELSE exc # NONE

\* C13: when the command has ended, its exit status is non-zero if the
\* dependency check found a required tool missing or if the run ended
\* Failed, in single-video mode and in batch mode alike.
C13_ExitStatusNonZeroOnFailure ==
    (pc = "exit" /\ ((missing /\ ~args.list_langs) \/ RunFailed)) => exit_status # 0

\* The sentences of a string, in order, without the whitespace.
Words(str) == SelectSeq(str, LAMBDA t : t.id # 0)

\* C12: for a text longer than max_chunk_size, translate_text makes at
\* least two chunks, each a run of whole sentences of the text in order
\* with single spaces between them, sends each chunk to the translator in
\* its own request, and returns the results joined by single spaces; when
\* every request returns its chunk as it is, the sentences of the result
\* are those of the text.
C12_LongTextIsChunked ==
    (tpc = "done" /\ StrLen(text) > max_chunk_size) =>
        /\ Len(chunks) >= 2
        /\ Words(Join(chunks)) = Words(text)
        /\ \A c \in 1..Len(chunks) :
             \A k \in 1..Len(chunks[c]) :
                chunks[c][k].id = 0 <=> k % 2 = 0
        /\ requests = chunks
        /\ translated = Join(translated_chunks)
        /\ translated_chunks = chunks => Words(translated) = Words(text)

====
